---- MODULE Spec2Model ----
(***************************************************************************)
(* Assignment tracker agent (src/iby_agent.py): the assignments table, the *)
(* deadline scan with its notification channels, and the orchestrated run. *)
(*                                                                         *)
(* Texts are sequences of symbols.  A symbol is one character, or a        *)
(* literal the code searches for ("Assignment", "Due:", "Title: ", a       *)
(* well-formed date) kept as one unit, so that Python's substring tests    *)
(* become tests on contiguous symbols.                                     *)
(*                                                                         *)
(* Time is counted in ticks, TicksPerDay to the day.  `now` is the local   *)
(* wall clock (datetime.now()); SQLite's datetime('now') is the UTC wall   *)
(* clock, `now - tz` for a zone `tz` ticks ahead of UTC.  Due dates are    *)
(* stored as naive local wall-clock values, as parse_due_date makes them.  *)
(***************************************************************************)
EXTENDS Integers, Sequences, FiniteSets, TLC

\* ------------------------------------------------------------------ bounds
\* Resolution of the clock.
TicksPerDay == 2
\* The clock stops advancing at MaxNow.
MaxNow == 1
\* Longest candidate list handed to store_assignments in one call.
MaxCands == 2

\* ------------------------------------------------------- program constants
\* check_and_notify_deadlines: get_upcoming_deadlines(days_ahead=30)
ScanWindowDays == 30
\* load_config: "advance_days": [7, 3, 1]
DefaultAdvanceDays == <<7, 3, 1>>

\* ------------------------------------------------------------------- texts
\* Optional values: <<>> is None / SQL NULL, <<v>> is the value v.
None == <<>>
Some(v) == <<v>>

Whitespace == {" ", "\n"}

\* str.replace(sym, ''): every occurrence of the literal is removed.
Remove(text, sym) == SelectSeq(text, LAMBDA s : s # sym)

RECURSIVE LStrip(_)
LStrip(text) ==
    IF text # <<>> /\ Head(text) \in Whitespace THEN LStrip(Tail(text)) ELSE text

RECURSIVE RStrip(_)
RStrip(text) ==
    IF text # <<>> /\ text[Len(text)] \in Whitespace
    THEN RStrip(SubSeq(text, 1, Len(text) - 1))
    ELSE text

\* str.strip()
Strip(text) == RStrip(LStrip(text))

\* The sentinel of a candidate without a due-date line.
NoDueDateFound == <<"No due date found">>

\* Well-formed dates ("Tuesday, 19 August 2025, 12:00 AM"), each one symbol,
\* and the local wall-clock instant each denotes, in ticks.
DateSyms == {"date:-1d", "date:0", "date:+3d", "date:+5d", "date:+7d", "date:+30d+1"}

DateInstant(sym) ==
    CASE sym = "date:-1d"    -> 0 - TicksPerDay
      [] sym = "date:0"      -> 0
      [] sym = "date:+3d"    -> 3 * TicksPerDay
      [] sym = "date:+5d"    -> 5 * TicksPerDay
      [] sym = "date:+7d"    -> 7 * TicksPerDay
      [] sym = "date:+30d+1" -> ScanWindowDays * TicksPerDay + 1

DueText(sym) == <<"Due:", " ", sym>>

\* `lit in text`
Contains(text, lit) ==
    \E i \in 1..(Len(text) - Len(lit) + 1) : SubSeq(text, i, i + Len(lit) - 1) = lit

\* text.startswith(lit)
StartsWith(text, lit) ==
    Len(lit) <= Len(text) /\ SubSeq(text, 1, Len(lit)) = lit

\* Characters in a symbol.
SymLen(sym) ==
    CASE sym = "Assignment" -> 10
      [] sym = "Due:"       -> 4
      [] sym = "Open"       -> 4
      [] sym = "ed:"        -> 3
      [] sym = "Closed:"    -> 7
      [] sym = "Click"      -> 5
      [] sym = "View"       -> 4
      [] sym = "Navigate"   -> 8
      [] sym = "Skip"       -> 4
      [] sym = "Title: "    -> 7
      [] sym = "No due date found" -> 17
      [] sym \in DateSyms   -> 33
      [] sym \in {"Quiz", "Exam"} -> 4
      [] sym = "Essay"      -> 5
      [] sym = "Programming" -> 11
      [] sym \in {"Course", "Policy"} -> 6
      [] sym \in {"Syl", "lab", "LAB", "and"} -> 3
      [] sym = "us"         -> 2
      [] sym = "https://"   -> 8
      [] sym = "http://"    -> 7
      [] OTHER              -> 1

\* len(text)
RECURSIVE TextLen(_)
TextLen(text) == IF text = <<>> THEN 0 ELSE SymLen(Head(text)) + TextLen(Tail(text))

\* str.lower(), symbol by symbol.
LowerSym(sym) ==
    CASE sym = "Assignment" -> "assignment"
      [] sym = "Due:"       -> "due:"
      [] sym = "Open"       -> "open"
      [] sym = "Closed:"    -> "closed:"
      [] sym = "Click"      -> "click"
      [] sym = "View"       -> "view"
      [] sym = "Navigate"   -> "navigate"
      [] sym = "Skip"       -> "skip"
      [] sym = "Title: "    -> "title: "
      [] sym = "Quiz"       -> "quiz"
      [] sym = "Exam"       -> "exam"
      [] sym = "Essay"      -> "essay"
      [] sym = "Programming" -> "programming"
      [] sym = "Course"     -> "course"
      [] sym = "Policy"     -> "policy"
      [] sym = "Syl"        -> "syl"
      [] sym = "LAB"        -> "lab"
      [] OTHER              -> sym

Lower(text) == [i \in 1..Len(text) |-> LowerSym(text[i])]

\* text.split('\n')
RECURSIVE SplitLines(_)
SplitLines(text) ==
    IF \A i \in 1..Len(text) : text[i] # "\n"
    THEN <<text>>
    ELSE LET cut == CHOOSE i \in 1..Len(text) :
                        text[i] = "\n" /\ \A j \in 1..(i - 1) : text[j] # "\n"
         IN  <<SubSeq(text, 1, cut - 1)>> \o SplitLines(SubSeq(text, cut + 1, Len(text)))

\* '\n'.join(lines)
RECURSIVE JoinLines(_)
JoinLines(lines) ==
    IF lines = <<>> THEN <<>>
    ELSE IF Len(lines) = 1 THEN Head(lines)
    ELSE Head(lines) \o <<"\n">> \o JoinLines(Tail(lines))

\* re.sub(r'\s+', ' ', text): every run of whitespace becomes one space.
RECURSIVE CollapseWhitespace(_)
CollapseWhitespace(text) ==
    IF text = <<>> THEN <<>>
    ELSE IF Head(text) \in Whitespace
         THEN <<" ">> \o CollapseWhitespace(LStrip(text))
         ELSE <<Head(text)>> \o CollapseWhitespace(Tail(text))

\* ------------------------------------------------------ AssignmentStorage
\* parse_due_date: None for the sentinel or an empty string; otherwise the
\* "Due:" label is removed, the rest stripped, and a well-formed date parsed
\* (dateparser and the strptime fallback agree on these); None when
\* nothing parses.
parse_due_date(due_date_raw) ==
    IF due_date_raw = <<>> \/ due_date_raw = NoDueDateFound
    THEN None
    ELSE LET cleaned == Strip(Remove(due_date_raw, "Due:"))
         IN  IF Len(cleaned) = 1 /\ cleaned[1] \in DateSyms
             THEN Some(DateInstant(cleaned[1]))
             ELSE None

\* The lookup with its two parameters bound in the wrong order: it never matches.
SqlSelectExisting_Swapped(rows, course_url, title) ==
    {r \in rows : r.course_url = title /\ r.assignment_name = course_url}

\* SELECT id FROM assignments WHERE course_url = ? AND assignment_name = ?
SqlSelectExisting(rows, course_url, title) ==
    {r \in rows : r.course_url = course_url /\ r.assignment_name = title}

\* The update written as a replacement of the row (INSERT OR REPLACE): the
\* new row takes the column defaults, notified = FALSE among them.
SqlUpdateDue_Replace(rows, course_url, title, due_date_raw, due_date_parsed, at) ==
    {IF r.course_url = course_url /\ r.assignment_name = title
     THEN [r EXCEPT !.due_date_raw = due_date_raw,
                    !.due_date_parsed = due_date_parsed,
                    !.extracted_at = at,
                    !.notified = FALSE]
     ELSE r : r \in rows}

\* UPDATE assignments SET due_date_raw, due_date_parsed, extracted_at
\* WHERE course_url = ? AND assignment_name = ?
SqlUpdateDue(rows, course_url, title, due_date_raw, due_date_parsed, at) ==
    {IF r.course_url = course_url /\ r.assignment_name = title
     THEN [r EXCEPT !.due_date_raw = due_date_raw,
                    !.due_date_parsed = due_date_parsed,
                    !.extracted_at = at]
     ELSE r : r \in rows}

\* The row an INSERT of (course_url, assignment_name, due_date_raw,
\* due_date_parsed) makes: extracted_at DEFAULT CURRENT_TIMESTAMP,
\* notified DEFAULT FALSE.
NewRow(course_url, title, due_date_raw, due_date_parsed, at) ==
    [course_url |-> course_url, assignment_name |-> title,
     due_date_raw |-> due_date_raw, due_date_parsed |-> due_date_parsed,
     extracted_at |-> at, notified |-> FALSE]

\* UNIQUE(course_url, assignment_name): an INSERT of a stored key fails.
UniqueViolated(rows, row) ==
    \E r \in rows : r.course_url = row.course_url
                    /\ r.assignment_name = row.assignment_name

\* assignment.get('title', '').replace('Title: ', '')
StoredTitle(title) == Remove(title, "Title: ")

\* The loop of store_assignments over the candidates, on the open
\* transaction `rows`.  An sqlite3.IntegrityError leaves the function before
\* conn.commit(): the table stays as `committed`.
RECURSIVE StoreLoop(_, _, _, _, _, _)
StoreLoop(committed, rows, course_url, assignments, stats, at) ==
    IF assignments = <<>>
    THEN [rows |-> rows, stats |-> stats, raised |-> FALSE]
    ELSE LET assignment == Head(assignments)
             title == StoredTitle(assignment.title)
             due_date_raw == assignment.due_date
             due_date_parsed == parse_due_date(due_date_raw)
             existing == SqlSelectExisting(rows, course_url, title)
             row == NewRow(course_url, title, due_date_raw, due_date_parsed, at)
         IN  IF existing # {}
             THEN StoreLoop(committed,
                            SqlUpdateDue(rows, course_url, title,
                                         due_date_raw, due_date_parsed, at),
                            course_url, Tail(assignments),
                            [stats EXCEPT !.updated = @ + 1, !.total = @ + 1], at)
             ELSE IF UniqueViolated(rows, row)
             THEN [rows |-> committed, stats |-> stats, raised |-> TRUE]
             ELSE StoreLoop(committed, rows \cup {row},
                            course_url, Tail(assignments),
                            [stats EXCEPT !.new = @ + 1, !.total = @ + 1], at)

\* store_assignments(course_url, assignments) at clock reading `at`:
\* the table after the call, the stats returned, and whether it raised.
store_assignments(rows, course_url, assignments, at) ==
    StoreLoop(rows, rows, course_url, assignments,
              [new |-> 0, updated |-> 0, total |-> 0], at)

\* The update with the title left out of its WHERE clause.
mark_as_notified_WholeCourse(rows, course_url, assignment_name) ==
    {IF r.course_url = course_url
     THEN [r EXCEPT !.notified = TRUE]
     ELSE r : r \in rows}

\* mark_as_notified: UPDATE assignments SET notified = TRUE WHERE key.
mark_as_notified(rows, course_url, assignment_name) ==
    {IF r.course_url = course_url /\ r.assignment_name = assignment_name
     THEN [r EXCEPT !.notified = TRUE]
     ELSE r : r \in rows}

\* The comparison of an engine that sorts NULL after every value.
DueBefore_NullsLast(a, b) ==
    \/ b.due_date_parsed = None
    \/ a.due_date_parsed # None /\ a.due_date_parsed[1] <= b.due_date_parsed[1]

\* ORDER BY due_date_parsed ASC: SQLite sorts NULL before every value.
\* Rows with equal keys come in an order SQL leaves open; one is picked.
DueBefore(a, b) ==
    \/ a.due_date_parsed = None
    \/ b.due_date_parsed # None /\ a.due_date_parsed[1] <= b.due_date_parsed[1]

RECURSIVE OrderByDueAsc(_)
OrderByDueAsc(rows) ==
    IF rows = {} THEN <<>>
    ELSE LET first == CHOOSE r \in rows : \A s \in rows : DueBefore(r, s)
         IN  <<first>> \o OrderByDueAsc(rows \ {first})

\* datetime('now') in SQLite: the UTC wall clock.
SqlNow(now, tz) == now - tz

\* get_upcoming_deadlines(days_ahead): future_date is datetime.now() +
\* days_ahead; rows WHERE due_date_parsed IS NOT NULL AND due_date_parsed
\* BETWEEN datetime('now') AND future_date, ORDER BY due_date_parsed ASC.
get_upcoming_deadlines(rows, days_ahead, now, tz) ==
    LET future_date == now + days_ahead * TicksPerDay
    IN  OrderByDueAsc({r \in rows :
            /\ r.due_date_parsed # None
            /\ SqlNow(now, tz) <= r.due_date_parsed[1]
            /\ r.due_date_parsed[1] <= future_date})

\* get_all_assignments: every row, ORDER BY due_date_parsed ASC.
get_all_assignments(rows) == OrderByDueAsc(rows)

\* ------------------------------------------------------ NotificationSystem
\* A channel in one run: "off" (disabled in the config, or plyer missing),
\* "ok" (the transport delivers), "fail" (the transport raises).
ChannelModes == {"off", "ok", "fail"}

\* The desktop send without its try/except: a failing notify call escapes.
send_desktop_notification_Unguarded(mode) ==
    CASE mode = "off"  -> [outcome |-> "skipped", raised |-> FALSE]
      [] mode = "ok"   -> [outcome |-> "sent",    raised |-> FALSE]
      [] mode = "fail" -> [outcome |-> "failed",  raised |-> TRUE]

\* send_desktop_notification: returns at once when disabled; the notify call
\* is inside try/except Exception, so a failure is printed and swallowed.
send_desktop_notification(mode) ==
    CASE mode = "off"  -> [outcome |-> "skipped", raised |-> FALSE]
      [] mode = "ok"   -> [outcome |-> "sent",    raised |-> FALSE]
      [] mode = "fail" -> [outcome |-> "failed",  raised |-> FALSE]

\* send_email: returns at once when disabled; the SMTP exchange is inside
\* try/except Exception.
send_email(mode) ==
    CASE mode = "off"  -> [outcome |-> "skipped", raised |-> FALSE]
      [] mode = "ok"   -> [outcome |-> "sent",    raised |-> FALSE]
      [] mode = "fail" -> [outcome |-> "failed",  raised |-> FALSE]

\* notify_assignment_deadline: the desktop send, then the email send; an
\* exception leaving the first would skip the second.
notify_assignment_deadline(config) ==
    LET desktop == send_desktop_notification(config.desktop)
    IN  IF desktop.raised
        THEN [desktop |-> desktop.outcome, email |-> "not reached", raised |-> TRUE]
        ELSE LET email == send_email(config.email)
             IN  [desktop |-> desktop.outcome, email |-> email.outcome,
                  raised |-> email.raised]

\* ------------------------------------------------------- DeadlineNotifier
\* (due_date_parsed - datetime.now()).days: timedelta.days is the floor.
DaysUntil(due, now) == (due - now) \div TicksPerDay

InSeq(x, seq) == \E i \in 1..Len(seq) : seq[i] = x

\* The rule without its unconditional part.
ShouldNotify_ThresholdsOnly(days_until, notification_days) ==
    InSeq(days_until, notification_days)

\* days_until in notification_days or days_until <= 1
ShouldNotify(days_until, notification_days) ==
    InSeq(days_until, notification_days) \/ days_until <= 1

\* The test with the flag left out.
Eligible_AnyFlag(assignment) == assignment.due_date_parsed # None

\* if assignment['due_date_parsed'] and not assignment['notified']
Eligible(assignment) == assignment.due_date_parsed # None /\ ~assignment.notified

\* The loop of check_and_notify_deadlines over the rows the query returned
\* (`upcoming`, read once before the loop): `rows` is the table as the loop
\* leaves it, `log` one entry per reminder dispatched, in order.
RECURSIVE ScanLoop(_, _, _, _, _)
ScanLoop(rows, upcoming, now, config, log) ==
    IF upcoming = <<>>
    THEN [rows |-> rows, log |-> log, raised |-> FALSE]
    ELSE LET assignment == Head(upcoming)
         IN  IF Eligible(assignment)
             THEN LET days_until == DaysUntil(assignment.due_date_parsed[1], now)
                  IN  IF ShouldNotify(days_until, config.advance_days)
                      THEN LET sent == notify_assignment_deadline(config)
                               entry == [course_url |-> assignment.course_url,
                                         assignment_name |-> assignment.assignment_name,
                                         days_until |-> days_until,
                                         desktop |-> sent.desktop,
                                         email |-> sent.email]
                           IN  IF sent.raised
                               THEN [rows |-> rows, log |-> Append(log, entry),
                                     raised |-> TRUE]
                               ELSE ScanLoop(
                                      mark_as_notified(rows, assignment.course_url,
                                                       assignment.assignment_name),
                                      Tail(upcoming), now, config, Append(log, entry))
                      ELSE ScanLoop(rows, Tail(upcoming), now, config, log)
             ELSE ScanLoop(rows, Tail(upcoming), now, config, log)

\* check_and_notify_deadlines at local time `now` in zone `tz`.
check_and_notify_deadlines(rows, now, tz, config) ==
    ScanLoop(rows, get_upcoming_deadlines(rows, ScanWindowDays, now, tz),
             now, config, <<>>)

\* --------------------------------------------- the rendered page (browser)
\* A page is its elements in document order, page.nodes[i] = [parent, own]:
\* the element's parent (0 is the document root, which has no text of its
\* own) and its own text, one line or none.  page.stale names the element
\* whose text read raises (a stale element), 0 for none.
RECURSIVE IsAncestorOrSelf(_, _, _)
IsAncestorOrSelf(page, a, i) ==
    \/ a = i
    \/ i # 0 /\ IsAncestorOrSelf(page, a, page.nodes[i].parent)

\* element.text: the element's own line and its descendants' lines.
RenderedText(page, i) ==
    LET inside == SelectSeq([j \in 1..Len(page.nodes) |-> j],
                            LAMBDA j : IsAncestorOrSelf(page, i, j)
                                       /\ page.nodes[j].own # <<>>)
    IN  JoinLines([k \in 1..Len(inside) |-> page.nodes[inside[k]].own])

\* Reading element.text: the text, or the exception of a stale element.
ElementText(page, i) ==
    [raised |-> i # 0 /\ page.stale = i, text |-> RenderedText(page, i)]

\* //*[contains(text(), 'Assignment') and not(contains(text(), 'Assignments'))]
AssignmentElements(page) ==
    SelectSeq([j \in 1..Len(page.nodes) |-> j],
              LAMBDA j : /\ Contains(page.nodes[j].own, <<"Assignment">>)
                         /\ ~Contains(page.nodes[j].own, <<"Assignment", "s">>))

\* //*[text()]
AllElements(page) ==
    SelectSeq([j \in 1..Len(page.nodes) |-> j], LAMBDA j : page.nodes[j].own # <<>>)

\* ----------------------------------------------------- scrape_assignments
\* for level in range(5)
WalkLevels == 5
\* len(element_text) < 5
MinElementLen == 5
\* len(line) > 5
MinTitleLen == 5
\* len(text) < 100
MaxFallbackLen == 100

SkipWords == {<<"skip">>, <<"click">>, <<"open">>, <<"view">>, <<"navigate">>}
NavPrefixes == {<<"Click">>, <<"View">>, <<"Open">>, <<"Navigate">>, <<"Skip">>}
DateLabels == {<<"Due:">>, <<"Open", "ed:">>, <<"Closed:">>}

normalize_title(title) == CollapseWhitespace(Lower(Strip(title)))

\* The test without its third case.
is_duplicate_title_OneWay(title, found_set) ==
    LET normalized == normalize_title(title)
    IN  \E existing \in found_set :
            LET existing_normalized == normalize_title(existing)
            IN  \/ normalized = existing_normalized
                \/ Contains(existing_normalized, normalized)

\* is_duplicate_title: equal, inside an existing title, or around one.
is_duplicate_title(title, found_set) ==
    LET normalized == normalize_title(title)
    IN  \E existing \in found_set :
            LET existing_normalized == normalize_title(existing)
            IN  \/ normalized = existing_normalized
                \/ Contains(existing_normalized, normalized)
                \/ Contains(normalized, existing_normalized)

\* The loop over the lines of one ancestor's text: each qualifying line
\* becomes the title, each line starting with "Due:" the due date.
RECURSIVE ScanLines(_, _, _)
ScanLines(lines, title, due_date) ==
    IF lines = <<>>
    THEN [title |-> title, due_date |-> due_date]
    ELSE LET line == Strip(Head(lines))
         IN  IF Contains(line, <<"Assignment">>)
                /\ ~\E word \in DateLabels : Contains(line, word)
             THEN IF TextLen(line) > MinTitleLen
                     /\ ~\E word \in NavPrefixes : StartsWith(line, word)
                  THEN ScanLines(Tail(lines), Some(line), due_date)
                  ELSE ScanLines(Tail(lines), title, due_date)
             ELSE IF StartsWith(line, <<"Due:">>)
             THEN ScanLines(Tail(lines), title, line)
             ELSE ScanLines(Tail(lines), title, due_date)

\* The walk up from an element: at most WalkLevels levels, ended by a title,
\* by a failing read or by the root having no parent.
RECURSIVE AncestorWalk(_, _, _, _)
AncestorWalk(page, current, level, due_date) ==
    IF level >= WalkLevels
    THEN [title |-> None, due_date |-> due_date]
    ELSE LET read == ElementText(page, current)
         IN  IF read.raised
             THEN [title |-> None, due_date |-> due_date]
             ELSE LET parent_text == Strip(read.text)
                      seen == IF parent_text # <<>> /\ Contains(parent_text, <<"Due:">>)
                              THEN ScanLines(SplitLines(parent_text), None, due_date)
                              ELSE [title |-> None, due_date |-> due_date]
                  IN  IF seen.title # None \/ current = 0
                      THEN seen
                      ELSE AncestorWalk(page, page.nodes[current].parent,
                                        level + 1, seen.due_date)

\* Method 1: the loop over the assignment elements, each in its own
\* try/except Exception: continue.
RECURSIVE Method1Loop(_, _, _, _)
Method1Loop(page, elements, found, assignments) ==
    IF elements = <<>>
    THEN [found |-> found, assignments |-> assignments]
    ELSE LET element == Head(elements)
             read == ElementText(page, element)
             element_text == Strip(read.text)
         IN  IF read.raised
             THEN Method1Loop(page, Tail(elements), found, assignments)
             ELSE IF \/ element_text = <<>>
                     \/ TextLen(element_text) < MinElementLen
                     \/ \E skip_word \in SkipWords :
                            Contains(Lower(element_text), skip_word)
             THEN Method1Loop(page, Tail(elements), found, assignments)
             ELSE LET walk == AncestorWalk(page, element, 0, NoDueDateFound)
                  IN  IF walk.title # None /\ ~is_duplicate_title(walk.title[1], found)
                      THEN Method1Loop(page, Tail(elements),
                                       found \cup {walk.title[1]},
                                       Append(assignments,
                                              [title |-> walk.title[1],
                                               due_date |-> walk.due_date]))
                      ELSE Method1Loop(page, Tail(elements), found, assignments)

\* Method 2, the fallback: the loop over every element with text.  The read
\* elem.text stands in no try block of its own: its exception leaves
\* scrape_assignments through the finally clause.
RECURSIVE FallbackLoop(_, _, _, _, _)
FallbackLoop(page, elements, current_assignment, found, assignments) ==
    IF elements = <<>>
    THEN [assignments |-> assignments, raised |-> FALSE]
    ELSE LET elem == Head(elements)
             read == ElementText(page, elem)
             text == Strip(read.text)
         IN  IF read.raised
             THEN [assignments |-> <<>>, raised |-> TRUE]
             ELSE IF text = <<>>
             THEN FallbackLoop(page, Tail(elements), current_assignment,
                               found, assignments)
             ELSE IF Contains(text, <<"Assignment">>) /\ TextLen(text) < MaxFallbackLen
             THEN IF ~\E word \in DateLabels : Contains(text, word)
                  THEN FallbackLoop(page, Tail(elements), Some(text), found, assignments)
                  ELSE FallbackLoop(page, Tail(elements), current_assignment,
                                    found, assignments)
             ELSE IF StartsWith(text, <<"Due:">>) /\ current_assignment # None
             THEN IF ~is_duplicate_title(current_assignment[1], found)
                  THEN FallbackLoop(page, Tail(elements), None,
                                    found \cup {current_assignment[1]},
                                    Append(assignments,
                                           [title |-> current_assignment[1],
                                            due_date |-> text]))
                  ELSE FallbackLoop(page, Tail(elements), None, found, assignments)
             ELSE FallbackLoop(page, Tail(elements), current_assignment,
                               found, assignments)

\* scrape_assignments on a loaded page: the candidates returned, or raised.
scrape_assignments(page) ==
    LET first == Method1Loop(page, AssignmentElements(page), {}, <<>>)
    IN  IF first.found = {}
        THEN FallbackLoop(page, AllElements(page), None, {}, <<>>)
        ELSE [assignments |-> first.assignments, raised |-> FALSE]

\* --------------------------------------------------- AssignmentClassifier
\* The keyword lists of classify_text, each keyword a lowercased literal.
assignment_indicators ==
    {<<"assignment">>, <<"homework">>, <<"project">>, <<"essay">>, <<"lab">>,
     <<"programming">>, <<"coding">>, <<"research">>, <<"report">>, <<"analysis">>}

non_assignment_indicators ==
    {<<"syl", "lab", "us">>, <<"lecture">>, <<"quiz">>, <<"exam">>,
     <<"announcement">>, <<"discussion">>, <<"forum">>, <<"schedule">>,
     <<"calendar">>, <<"policy">>, <<"introduction">>, <<"over", "view">>,
     <<"welcome">>, <<"resources">>}

\* The classifier with ties counted for the assignment.
classify_text_TiesAccept(text) ==
    LET text_lower == Lower(text)
        assignment_score ==
            Cardinality({w \in assignment_indicators : Contains(text_lower, w)})
        non_assignment_score ==
            Cardinality({w \in non_assignment_indicators : Contains(text_lower, w)})
    IN  [is_assignment |-> assignment_score >= non_assignment_score,
         confidence |-> [num |-> IF assignment_score > non_assignment_score
                                 THEN assignment_score ELSE non_assignment_score,
                         den |-> assignment_score + non_assignment_score + 1]]

\* classify_text: the two scores, and is_assignment = assignment_score >
\* non_assignment_score; confidence is max / (sum + 1), kept as a fraction.
classify_text(text) ==
    LET text_lower == Lower(text)
        assignment_score ==
            Cardinality({w \in assignment_indicators : Contains(text_lower, w)})
        non_assignment_score ==
            Cardinality({w \in non_assignment_indicators : Contains(text_lower, w)})
    IN  [is_assignment |-> assignment_score > non_assignment_score,
         confidence |-> [num |-> IF assignment_score > non_assignment_score
                                 THEN assignment_score ELSE non_assignment_score,
                         den |-> assignment_score + non_assignment_score + 1]]

\* ------------------------------------------------ CompleteAssignmentScraper
\* is_valid_url: re.match(r'https?://', url)
is_valid_url(url) ==
    StartsWith(url, <<"http://">>) \/ StartsWith(url, <<"https://">>)

\* process_assignments: the candidates classified as assignments are kept;
\* when there are any, they are stored and the deadline scan runs.
process_assignments(rows, url, assignments, now, tz, config) ==
    LET classified_assignments ==
            SelectSeq(assignments, LAMBDA a : classify_text(a.title).is_assignment)
    IN  IF classified_assignments # <<>>
        THEN LET stored == store_assignments(rows, url, classified_assignments, now)
                 scan == check_and_notify_deadlines(stored.rows, now, tz, config)
             IN  IF stored.raised
                 THEN [classified |-> classified_assignments, rows |-> stored.rows,
                       log |-> <<>>, scans |-> 0, raised |-> TRUE]
                 ELSE [classified |-> classified_assignments, rows |-> scan.rows,
                       log |-> scan.log, scans |-> 1, raised |-> scan.raised]
        ELSE [classified |-> classified_assignments, rows |-> rows,
              log |-> <<>>, scans |-> 0, raised |-> FALSE]

\* ------------------------------------------------------------- environment
Course1 == <<"https://", "lms.example/course/1">>
Course2 == <<"http://", "lms.example/course/2">>
Courses == {Course1, Course2}

Assignment1 == <<"Assignment", " ", "1">>
Assignment2 == <<"Assignment", " ", "2">>

\* Zones: behind UTC, UTC, ahead of UTC (in ticks).
TimeZones == {-1, 0, 1}

\* notification_config.json: the default thresholds, or thresholds the user set.
AdvanceDays == {DefaultAdvanceDays, <<5, 2>>}

Configs == [desktop : ChannelModes, email : ChannelModes, advance_days : AdvanceDays]

SeqsUpTo(S, n) == UNION {[1..k -> S] : k \in 0..n}

KeyOf(r) == <<r.course_url, r.assignment_name>>

\* ------------------------------------------------------------------- state
VARIABLES
    rows,        \* the assignments table: a set of rows
    now,         \* the local wall clock, in ticks
    dispatches,  \* <<course_url, assignment_name>> -> the reminders dispatched
                 \* for the key so far: [n, due], due the text first dispatched
    run,         \* the orchestrated run under way: None, or <<[url, raw]>>
                 \* between scrape_assignments and process_assignments
    scanned,     \* the last deadline scan observed: None, or <<its record>>
    summary,     \* the last listing observed: None, or <<its record>>
                 \* (an observation replaces the one before it)
    page,        \* the page loaded for an extraction: None, or <<the page>>
    scraped,     \* what scrape_assignments made of it: None, or <<its result>>
    classified   \* a text handed to classify_text: None, or <<[text, result]>>,
                 \* result None until classify_text has returned

vars == <<rows, now, dispatches, run, scanned, summary, page, scraped, classified>>

observed == <<scanned, summary, page, scraped, classified>>

\* Reminders are counted up to this many per key.
DispatchCap == 2

\* The reminders of a scan's log, added to the count.
RECURSIVE CountDispatches(_, _, _)
CountDispatches(counts, log, table) ==
    IF log = <<>> THEN counts
    ELSE LET k == <<Head(log).course_url, Head(log).assignment_name>>
             due == (CHOOSE r \in table : KeyOf(r) = k).due_date_raw
             old == IF k \in DOMAIN counts THEN counts[k] ELSE [n |-> 0, due |-> due]
             new == [old EXCEPT !.n = IF @ < DispatchCap THEN @ + 1 ELSE @]
         IN  CountDispatches((k :> new) @@ counts, Tail(log), table)

Init ==
    /\ rows = {}
    /\ now = 0
    /\ dispatches = <<>>
    /\ run = None
    /\ scanned = None
    /\ summary = None
    /\ page = None
    /\ scraped = None
    /\ classified = None

\* Time passes.
Tick ==
    /\ now < MaxNow
    /\ now' = now + 1
    /\ UNCHANGED <<rows, dispatches, run, observed>>

\* ------------------------------------------------------ the orchestrated run
\* Pages of a course: cards, each a container holding a title line and a
\* due line.
Card(title, due) == [title |-> title, due |-> due]

RECURSIVE CardNodes(_, _)
CardNodes(cards, at) ==
    IF cards = <<>> THEN <<>>
    ELSE <<[parent |-> 0, own |-> <<>>],
           [parent |-> at + 1, own |-> Head(cards).title],
           [parent |-> at + 1, own |-> Head(cards).due]>>
         \o CardNodes(Tail(cards), at + 3)

CardPage(cards, stale) == [nodes |-> CardNodes(cards, 0), stale |-> stale]

QuizTitle == <<"Assignment", " ", "Quiz", " ", "Exam">>

\* What a course page may show of one title: nothing, or its card with one
\* of its due dates.
RunDues == {DueText("date:+3d"), DueText("date:+5d")}

CardsOf(title, dues) == {<<>>} \cup {<<Card(title, due)>> : due \in dues}

RunCardLists ==
    {c1 \o c2 \o c3 :
        c1 \in CardsOf(Assignment1, RunDues),
        c2 \in CardsOf(Assignment2, RunDues),
        c3 \in CardsOf(QuizTitle, {DueText("date:+3d")})}

\* The pages a run may find: read without failure, or with the title
\* element of the first card stale.
RunPages ==
    {CardPage(cards, 0) : cards \in RunCardLists}
    \cup {CardPage(cards, 2) : cards \in RunCardLists \ {<<>>}}

\* What the user may enter as the course URL.
RunUrls == {Course1, <<"lms.example/course/1">>}

\* run(), up to the return of scrape_assignments: an invalid URL, a failed
\* extraction or an empty candidate list ends the run there.
RunScrape ==
    /\ run = None
    /\ \E url \in RunUrls, loaded \in RunPages :
          LET found == scrape_assignments(loaded)
          IN  run' = IF is_valid_url(url) /\ ~found.raised /\ found.assignments # <<>>
                     THEN Some([url |-> url, raw |-> found.assignments])
                     ELSE None
    /\ UNCHANGED <<rows, now, dispatches, observed>>

\* run(), from process_assignments on: classification, the store, the scan.
RunProcess ==
    /\ run # None
    /\ \E tz \in TimeZones, config \in Configs :
          LET done == process_assignments(rows, run[1].url, run[1].raw, now, tz, config)
          IN  /\ rows' = done.rows
              /\ dispatches' = CountDispatches(dispatches, done.log, done.rows)
    /\ run' = None
    /\ UNCHANGED <<now, observed>>

Next ==
    \/ RunScrape
    \/ RunProcess
    \/ Tick

Spec == Init /\ [][Next]_vars

\* ---------------------------------------------- the storage API, from empty
\* What the callers of the storage API hand it: per course, the titles its
\* page lists (one of them also in the "Title: " form) and their due texts.
StoreTitles(course_url) ==
    IF course_url = Course1
    THEN {Assignment1, Assignment2}
    ELSE {Assignment1, <<"Title: ">> \o Assignment1}

StoreDues == {NoDueDateFound, DueText("date:+3d")}

StoreCandidates(course_url) == [title : StoreTitles(course_url), due_date : StoreDues]

\* A caller stores a candidate list.
StoreAssignments ==
    \E course_url \in Courses :
        \E assignments \in SeqsUpTo(StoreCandidates(course_url), MaxCands) :
            /\ rows' = store_assignments(rows, course_url, assignments, now).rows
            /\ UNCHANGED <<now, dispatches, run, observed>>

\* A caller marks a key notified.
MarkAsNotified ==
    \E course_url \in Courses, title \in {Assignment1, Assignment2} :
        /\ rows' = mark_as_notified(rows, course_url, title)
        /\ UNCHANGED <<now, dispatches, run, observed>>

\* A caller runs one deadline scan.
CheckAndNotifyDeadlines ==
    \E tz \in TimeZones, config \in Configs :
        LET scan == check_and_notify_deadlines(rows, now, tz, config)
        IN  /\ rows' = scan.rows
            /\ dispatches' = CountDispatches(dispatches, scan.log, rows)
            /\ UNCHANGED <<now, run, observed>>

NextStore ==
    \/ StoreAssignments
    \/ MarkAsNotified
    \/ CheckAndNotifyDeadlines
    \/ Tick

SpecStore == Init /\ [][NextStore]_vars

\* ------------------------------------- scans and listings of a stored table
\* Tables earlier runs can have left: rows for two assignments of a course,
\* each with a due text the extractor can deliver, notified or not.
ScanDues == {NoDueDateFound} \cup {DueText(d) : d \in DateSyms \ {"date:+7d"}}

ScanRows(title) ==
    {[NewRow(Course1, title, due, parse_due_date(due), 0) EXCEPT !.notified = n] :
        due \in ScanDues, n \in BOOLEAN}

ScanTables ==
    {{}} \cup {{r} : r \in ScanRows(Assignment1)}
         \cup {{r1, r2} : r1 \in ScanRows(Assignment1), r2 \in ScanRows(Assignment2)}

InitScan ==
    /\ rows \in ScanTables
    /\ now \in 0..MaxNow
    /\ dispatches = [k \in {KeyOf(r) : r \in {x \in rows : x.notified}} |->
                        [n |-> 1, due |-> (CHOOSE r \in rows : KeyOf(r) = k).due_date_raw]]
    /\ run = None
    /\ scanned = None
    /\ summary = None
    /\ page = None
    /\ scraped = None
    /\ classified = None

\* One deadline scan, observed: the clock and zone it ran in, its config, the
\* table before it, the rows its query returned and the reminders dispatched.
DeadlineScan ==
    \E tz \in TimeZones, config \in Configs :
        LET scan == check_and_notify_deadlines(rows, now, tz, config)
        IN  /\ rows' = scan.rows
            /\ dispatches' = CountDispatches(dispatches, scan.log, rows)
            /\ scanned' = Some([at |-> now, tz |-> tz, config |-> config,
                                before |-> rows,
                                upcoming |-> get_upcoming_deadlines(
                                               rows, ScanWindowDays, now, tz),
                                log |-> scan.log, raised |-> scan.raised])
            /\ summary' = None
            /\ UNCHANGED <<now, run, page, scraped, classified>>

\* show_summary: the listing get_all_assignments returns.
ShowSummary ==
    /\ summary' = Some([of |-> rows, listing |-> get_all_assignments(rows)])
    /\ scanned' = None
    /\ UNCHANGED <<rows, now, dispatches, run, page, scraped, classified>>

NextScan ==
    \/ DeadlineScan
    \/ ShowSummary
    \/ Tick

SpecScan == InitScan /\ [][NextScan]_vars

\* --------------------------------------------- extractions of a loaded page
\* The size of a page: its elements below the root.
MaxNodes == 3

\* Own texts of the elements: none (a container), a title, the section
\* header, a due line, a navigation link naming an assignment.
OwnTexts ==
    {<<>>, Assignment1, Assignment2, <<"Assignment", "s">>, DueText("date:+3d"),
     <<"View", " ", "Assignment", " ", "2">>}

\* Titles of cards: one inside another ("Assignment 1" in "Assignment 10"),
\* and one that differs from another in its whitespace only.
Assignment10 == <<"Assignment", " ", "1", "0">>
Assignment1Spaced == <<"Assignment", " ", " ", "1">>

ScrapeTitles == {Assignment1, Assignment10, Assignment1Spaced}

ScrapeCards == {Card(t, DueText("date:+3d")) : t \in ScrapeTitles}

\* Parent vectors of n elements in document order: each element hangs under
\* the root, under the element before it or under one of that one's ancestors.
RECURSIVE AncestorsOf(_, _)
AncestorsOf(parent, i) ==
    IF i = 0 THEN {0} ELSE {i} \cup AncestorsOf(parent, parent[i])

Shapes(n) ==
    {parent \in [1..n -> 0..(n - 1)] :
        \A i \in 1..n : parent[i] \in AncestorsOf(parent, i - 1)}

PageOf(n, parent, own, stale) ==
    [nodes |-> [i \in 1..n |-> [parent |-> parent[i], own |-> own[i]]],
     stale |-> stale]

\* A page is loaded: any page of up to MaxNodes elements, at most one of
\* them stale since it was found, or a page of up to MaxCands cards.
InitScrape ==
    /\ rows = {}
    /\ now = 0
    /\ dispatches = <<>>
    /\ run = None
    /\ scanned = None
    /\ summary = None
    /\ \/ \E n \in 1..MaxNodes :
             \E parent \in Shapes(n), own \in [1..n -> OwnTexts], stale \in 0..n :
                 page = Some(PageOf(n, parent, own, stale))
       \/ \E cards \in SeqsUpTo(ScrapeCards, MaxCands) :
             page = Some(CardPage(cards, 0))
    /\ scraped = None
    /\ classified = None

\* scrape_assignments on the loaded page (the /scrape endpoint of app.py
\* calls it alone).
Scrape ==
    /\ scraped = None
    /\ scraped' = Some(scrape_assignments(page[1]))
    /\ UNCHANGED <<rows, now, dispatches, run, scanned, summary, page, classified>>

NextScrape == Scrape

SpecScrape == InitScrape /\ [][NextScrape]_vars

\* ------------------------------------------- the fallback on flat sequences
\* The length of a flat sequence of text elements.
MaxElems == 4

EssayTitle == <<"Assignment", ":", " ", "Essay", " ", "1">>
LectureNotes == <<"Lecture", " ", "Notes", " ", "Week", " ", "1">>
DueNaming == <<"Due:", " ", "Assignment", " ", "1", " ", "date:+3d">>

\* Texts of the elements: titles, a due line, a due line that names its
\* assignment, a line that is neither.
FlatTexts == {EssayTitle, Assignment1, DueText("date:+3d"), DueNaming, LectureNotes}

FlatPage(texts) ==
    [nodes |-> [i \in 1..Len(texts) |-> [parent |-> 0, own |-> texts[i]]],
     stale |-> 0]

InitFallback ==
    /\ rows = {}
    /\ now = 0
    /\ dispatches = <<>>
    /\ run = None
    /\ scanned = None
    /\ summary = None
    /\ page \in {Some(FlatPage(texts)) : texts \in SeqsUpTo(FlatTexts, MaxElems)}
    /\ scraped = None
    /\ classified = None

\* Method 2 of scrape_assignments on the elements of the page.
FallbackScan ==
    /\ scraped = None
    /\ scraped' = Some(FallbackLoop(page[1], AllElements(page[1]), None, {}, <<>>))
    /\ UNCHANGED <<rows, now, dispatches, run, scanned, summary, page, classified>>

NextFallback == FallbackScan

SpecFallback == InitFallback /\ [][NextFallback]_vars

\* ------------------------------------------------ texts handed to classify
\* The length of a text, in words.
MaxWords == 4

\* Words of titles: keywords of either list in several cases, a word that
\* holds a keyword of the other list inside it ("Syllabus"), other words.
Words ==
    {<<"Programming">>, <<"Assignment">>, <<"3">>, <<"Course">>,
     <<"Syl", "lab", "us">>, <<"and">>, <<"Policy">>, <<"LAB">>, <<"quiz">>}

RECURSIVE JoinWords(_)
JoinWords(words) ==
    IF words = <<>> THEN <<>>
    ELSE IF Len(words) = 1 THEN Head(words)
    ELSE Head(words) \o <<" ">> \o JoinWords(Tail(words))

Texts == {JoinWords(words) : words \in SeqsUpTo(Words, MaxWords)}

InitClassify ==
    /\ rows = {}
    /\ now = 0
    /\ dispatches = <<>>
    /\ run = None
    /\ scanned = None
    /\ summary = None
    /\ page = None
    /\ scraped = None
    /\ classified \in {Some([text |-> t, result |-> None]) : t \in Texts}

\* classify_text on the text.
Classify ==
    /\ classified[1].result = None
    /\ classified' = Some([classified[1] EXCEPT
                              !.result = Some(classify_text(classified[1].text))])
    /\ UNCHANGED <<rows, now, dispatches, run, scanned, summary, page, scraped>>

NextClassify == Classify

SpecClassify == InitClassify /\ [][NextClassify]_vars

\* ------------------------------------------------------------ store claims
RowsOfKey(table, k) == {r \in table : KeyOf(r) = k}

MaxOf(S) == CHOOSE x \in S : \A y \in S : y <= x

\* The positions of a candidate list that name the stored key k.
Hits(course_url, assignments, k) ==
    {i \in 1..Len(assignments) :
        <<course_url, StoredTitle(assignments[i].title)>> = k}

\* C1: the table never holds two rows with one (course_url, assignment_name),
\* and storing any candidate list leaves every stored key with exactly one
\* row: untouched when the list does not name it, and otherwise the same row
\* with due_date_raw, due_date_parsed and extracted_at taken from the last
\* candidate naming it.
C1_UniqueKeyUpsertInPlace ==
    /\ \A r1, r2 \in rows : KeyOf(r1) = KeyOf(r2) => r1 = r2
    /\ \A course_url \in Courses :
         \A assignments \in SeqsUpTo(StoreCandidates(course_url), MaxCands) :
            LET after == store_assignments(rows, course_url, assignments, now)
            IN  /\ ~after.raised
                /\ \A r \in rows :
                     LET hits == Hits(course_url, assignments, KeyOf(r))
                         same == RowsOfKey(after.rows, KeyOf(r))
                     IN  /\ Cardinality(same) = 1
                         /\ \A r2 \in same :
                              IF hits = {}
                              THEN r2 = r
                              ELSE LET last == assignments[MaxOf(hits)]
                                   IN  r2 = [r EXCEPT
                                         !.due_date_raw = last.due_date,
                                         !.due_date_parsed = parse_due_date(last.due_date),
                                         !.extracted_at = now]

\* C1 witness: a stored row written at an earlier tick whose key a candidate
\* with another due text names, beside a row of the same title in the other
\* course and a row of another title in the same course.
C1_Witness ==
    \E r \in rows :
        /\ r.extracted_at < now
        /\ r.due_date_raw = NoDueDateFound
        /\ r.notified
        /\ \E s \in rows : s.course_url # r.course_url
                           /\ s.assignment_name = r.assignment_name
        /\ \E s \in rows : s.course_url = r.course_url
                           /\ s.assignment_name # r.assignment_name
        /\ \E cand \in StoreCandidates(r.course_url) :
              /\ StoredTitle(cand.title) = r.assignment_name
              /\ cand.due_date # r.due_date_raw
              /\ store_assignments(rows, r.course_url, <<cand>>, now).stats.updated = 1

\* Marking one stored key notified, or none, between two calls.
MarkedBetween(table) ==
    {table} \cup {mark_as_notified(table, r.course_url, r.assignment_name) : r \in table}

\* C2: for every table, course and candidate list: once the list has been
\* stored, storing the same list again (at once or later, whatever was
\* marked notified in between) returns new = 0 and leaves every row's
\* notified flag as it was before the second call.
C2_UpsertIdempotent ==
    \A course_url \in Courses :
      \A assignments \in SeqsUpTo(StoreCandidates(course_url), MaxCands) :
        LET first == store_assignments(rows, course_url, assignments, now)
        IN  \A before \in MarkedBetween(first.rows) :
              \A at \in now..MaxNow :
                LET second == store_assignments(before, course_url, assignments, at)
                IN  /\ second.stats.new = 0
                    /\ second.stats.total = Len(assignments)
                    /\ {KeyOf(r) : r \in second.rows} = {KeyOf(r) : r \in before}
                    /\ \A r \in before : \A r2 \in RowsOfKey(second.rows, KeyOf(r)) :
                          r2.notified = r.notified

\* C2 witness: a table with a notified row, and a list whose first storing
\* both adds a row and rewrites the notified one.
C2_Witness ==
    \E r \in rows :
        /\ r.notified
        /\ \E assignments \in SeqsUpTo(StoreCandidates(r.course_url), MaxCands) :
              LET first == store_assignments(rows, r.course_url, assignments, now)
              IN  /\ first.stats.new > 0
                  /\ first.stats.updated > 0
                  /\ Hits(r.course_url, assignments, KeyOf(r)) # {}

\* ------------------------------------------------------------- scan claims
InLog(s, k) ==
    \E i \in 1..Len(s.log) : <<s.log[i].course_url, s.log[i].assignment_name>> = k

\* Whole days from `at` to `due`, rounded down.
WholeDays(due, at) == (due - at) \div TicksPerDay

\* days is one of advance_days, or days <= 1.
Warranted(days, advance_days) ==
    days <= 1 \/ \E j \in 1..Len(advance_days) : advance_days[j] = days

NotifiedNow(k) == \A r \in RowsOfKey(rows, k) : r.notified

\* C5: in a scan, a returned row that was not notified and has a due date is
\* dispatched, and then notified, exactly when its whole days until due are
\* in advance_days or at most 1; under [7, 3, 1], 3 days is dispatched and
\* 5 days is not.
C5_DispatchRule ==
    scanned # None =>
        LET s == scanned[1]
        IN  \A i \in 1..Len(s.upcoming) :
              LET r == s.upcoming[i]
              IN  (~r.notified /\ r.due_date_parsed # None) =>
                    LET days == WholeDays(r.due_date_parsed[1], s.at)
                    IN  /\ InLog(s, KeyOf(r)) <=> Warranted(days, s.config.advance_days)
                        /\ NotifiedNow(KeyOf(r)) <=> InLog(s, KeyOf(r))
                        /\ (s.config.advance_days = <<7, 3, 1>> /\ days = 3)
                              => InLog(s, KeyOf(r)) /\ NotifiedNow(KeyOf(r))
                        /\ (s.config.advance_days = <<7, 3, 1>> /\ days = 5)
                              => ~InLog(s, KeyOf(r)) /\ ~NotifiedNow(KeyOf(r))

\* C5 witness: a scan under [7, 3, 1] that returned an unnotified row due in
\* 3 days, now dispatched and notified, and one due in 5 days, left alone.
C5_Witness ==
    /\ scanned # None
    /\ scanned[1].config.advance_days = <<7, 3, 1>>
    /\ \E r3, r5 \in scanned[1].before :
          /\ ~r3.notified /\ ~r5.notified
          /\ r3.due_date_parsed # None /\ r5.due_date_parsed # None
          /\ WholeDays(r3.due_date_parsed[1], scanned[1].at) = 3
          /\ WholeDays(r5.due_date_parsed[1], scanned[1].at) = 5
          /\ InLog(scanned[1], KeyOf(r3)) /\ NotifiedNow(KeyOf(r3))
          /\ ~InLog(scanned[1], KeyOf(r5)) /\ ~NotifiedNow(KeyOf(r5))

\* C6 (as claimed): a scan dispatches a reminder for every stored row whose
\* due date is in the past and that was not notified.
C6_PastDueDispatched ==
    scanned # None =>
        LET s == scanned[1]
        IN  \A r \in s.before :
              (r.due_date_parsed # None /\ ~r.notified
                 /\ WholeDays(r.due_date_parsed[1], s.at) < 0)
              => InLog(s, KeyOf(r))

IsAscending(listing) ==
    \A i, j \in 1..Len(listing) :
        (i < j /\ listing[i].due_date_parsed # None /\ listing[j].due_date_parsed # None)
        => listing[i].due_date_parsed[1] <= listing[j].due_date_parsed[1]

SeqToSet(seq) == {seq[i] : i \in 1..Len(seq)}

\* C7 (as claimed): the query of a scan returns exactly the rows whose due
\* date is not null and lies in [now, now + window], ascending by due date.
C7_QueryWindow ==
    scanned # None =>
        LET s == scanned[1]
        IN  /\ SeqToSet(s.upcoming) =
                 {r \in s.before :
                    /\ r.due_date_parsed # None
                    /\ s.at <= r.due_date_parsed[1]
                    /\ r.due_date_parsed[1] <= s.at + ScanWindowDays * TicksPerDay}
            /\ Len(s.upcoming) = Cardinality(SeqToSet(s.upcoming))
            /\ IsAscending(s.upcoming)

\* C8 (as claimed): the listing holds every row once, ascending by due date,
\* the rows without a due date after all rows with one.
C8_ListAllNullsLast ==
    summary # None =>
        LET l == summary[1].listing
        IN  /\ SeqToSet(l) = summary[1].of
            /\ Len(l) = Cardinality(summary[1].of)
            /\ IsAscending(l)
            /\ \A i, j \in 1..Len(l) :
                  (i < j /\ l[i].due_date_parsed = None) => l[j].due_date_parsed = None

\* C8 (amended): the listing holds every row once, ascending by due date,
\* the rows without a due date before all rows with one.
C8_ListAllNullsFirst ==
    summary # None =>
        LET l == summary[1].listing
        IN  /\ SeqToSet(l) = summary[1].of
            /\ Len(l) = Cardinality(summary[1].of)
            /\ IsAscending(l)
            /\ \A i, j \in 1..Len(l) :
                  (i < j /\ l[j].due_date_parsed = None) => l[i].due_date_parsed = None

\* C8 witness: a listing of a row without a due date and a row with one.
C8_Witness ==
    /\ summary # None
    /\ \E a, b \in summary[1].of :
          a.due_date_parsed = None /\ b.due_date_parsed # None
    /\ Len(summary[1].listing) = 2

Attempted(outcome) == outcome \in {"sent", "failed"}

\* C9: a scan never ends on a channel's failure; for every reminder the
\* decision was made for, each enabled channel was tried whatever the other
\* did, and the row is notified whatever the channels did; every returned
\* unnotified row the rule selects got its reminder, wherever it stands.
C9_ChannelFailureSwallowed ==
    scanned # None =>
        LET s == scanned[1]
        IN  /\ ~s.raised
            /\ \A i \in 1..Len(s.log) :
                  /\ s.config.desktop # "off" <=> Attempted(s.log[i].desktop)
                  /\ s.config.email # "off" <=> Attempted(s.log[i].email)
                  /\ s.config.desktop = "fail" => s.log[i].desktop = "failed"
                  /\ s.config.email = "fail" => s.log[i].email = "failed"
                  /\ NotifiedNow(<<s.log[i].course_url, s.log[i].assignment_name>>)
            /\ \A i \in 1..Len(s.upcoming) :
                  LET r == s.upcoming[i]
                  IN  (/\ ~r.notified
                       /\ r.due_date_parsed # None
                       /\ Warranted(WholeDays(r.due_date_parsed[1], s.at),
                                    s.config.advance_days))
                      => InLog(s, KeyOf(r)) /\ NotifiedNow(KeyOf(r))

\* C9 witness: a scan with both channels failing that dispatched two
\* reminders and left both rows notified.
C9_Witness ==
    /\ scanned # None
    /\ scanned[1].config.desktop = "fail"
    /\ scanned[1].config.email = "fail"
    /\ Len(scanned[1].log) = 2
    /\ \A r \in rows : r.notified
    /\ \A r \in scanned[1].before : ~r.notified

\* --------------------------------------------------------------- run claims
Keys(table) == {KeyOf(r) : r \in table}

\* A reminder for key k is dispatched in the step.
DispatchedInStep(k) ==
    /\ k \in DOMAIN dispatches'
    /\ k \in DOMAIN dispatches => dispatches'[k].n > dispatches[k].n

\* The table as the store step of the run under way leaves it, before the scan.
StoredByRun ==
    store_assignments(rows, run[1].url,
                      SelectSeq(run[1].raw, LAMBDA a : classify_text(a.title).is_assignment),
                      now).rows

\* C3: the notified flag is a one-way latch.  In every step of the program:
\* no row is removed and no notified row becomes un-notified; a row that is
\* notified after the step and was not before it had a reminder dispatched
\* in that step; and the store step of a run creates its new rows with
\* notified = FALSE and leaves the flag of every stored row as it was.
C3_NotifiedLatch ==
    [][/\ \A r \in rows : \E r2 \in rows' :
              KeyOf(r2) = KeyOf(r) /\ (r.notified => r2.notified)
       /\ \A r2 \in rows' :
              (r2.notified /\ ~(\E r \in rows : KeyOf(r) = KeyOf(r2) /\ r.notified))
                  => DispatchedInStep(KeyOf(r2))
       /\ run # None =>
              LET stored == StoredByRun
              IN  \A r2 \in stored :
                     /\ KeyOf(r2) \notin Keys(rows) => ~r2.notified
                     /\ \A r \in RowsOfKey(rows, KeyOf(r2)) : r2.notified = r.notified
      ]_vars

\* C3 witness: a notified row that a later run has re-extracted with another
\* due text than the one it was reminded of, beside a row created and not
\* yet notified.
C3_Witness ==
    /\ \E r \in rows :
          /\ r.notified
          /\ r.extracted_at > 0
          /\ KeyOf(r) \in DOMAIN dispatches
          /\ dispatches[KeyOf(r)].due # r.due_date_raw
    /\ \E r \in rows : ~r.notified

\* C4: over any sequence of runs against the same table, no key has had
\* more than one reminder dispatched.
C4_DispatchedAtMostOnce ==
    \A k \in DOMAIN dispatches : dispatches[k].n <= 1

\* C4 witness: a key reminded once, since re-extracted with another due date
\* that is inside the scan window and warrants a reminder under a config,
\* and a scan now under that config dispatches nothing for it.
C4_Witness ==
    \E r \in rows :
        /\ r.notified
        /\ KeyOf(r) \in DOMAIN dispatches
        /\ dispatches[KeyOf(r)].n = 1
        /\ dispatches[KeyOf(r)].due # r.due_date_raw
        /\ r.due_date_parsed # None
        /\ \E config \in Configs :
              /\ Warranted(WholeDays(r.due_date_parsed[1], now), config.advance_days)
              /\ \E i \in 1..Len(get_upcoming_deadlines(rows, ScanWindowDays, now, 0)) :
                    get_upcoming_deadlines(rows, ScanWindowDays, now, 0)[i] = r
              /\ ~InLog(check_and_notify_deadlines(rows, now, 0, config), KeyOf(r))

\* C11 (as claimed): whatever candidates the run under way extracted, and
\* however many of them are classified as assignments, its processing
\* invokes the deadline scan exactly once.
C11_ScanOncePerRun ==
    run # None =>
        \A tz \in TimeZones, config \in Configs :
            process_assignments(rows, run[1].url, run[1].raw, now, tz, config).scans = 1

\* ---------------------------------------------------- classification claims
\* keyword occurs in text at some position, letters compared without case.
OccursAnyCase(keyword, text) ==
    \E at \in 0..(Len(text) - Len(keyword)) :
        \A j \in 1..Len(keyword) : LowerSym(text[at + j]) = keyword[j]

Occurring(keywords, text) == Cardinality({w \in keywords : OccursAnyCase(w, text)})

ProgrammingAssignment3 == <<"Programming", " ", "Assignment", " ", "3">>
CourseSyllabusAndPolicy ==
    <<"Course", " ", "Syl", "lab", "us", " ", "and", " ", "Policy">>

\* C12: classify_text returns is_assignment = TRUE exactly when more
\* positive than negative keywords occur in the text as case-insensitive
\* substrings, so equal counts give FALSE; "Programming Assignment 3" is
\* classified TRUE and "Course Syllabus and Policy" FALSE.
C12_MajorityOfKeywords ==
    (classified # None /\ classified[1].result # None) =>
        LET text == classified[1].text
            is_assignment == classified[1].result[1].is_assignment
        IN  /\ is_assignment <=> Occurring(assignment_indicators, text)
                                  > Occurring(non_assignment_indicators, text)
            /\ text = ProgrammingAssignment3 => is_assignment
            /\ text = CourseSyllabusAndPolicy => ~is_assignment

\* C12 witness: a classified text in which as many positive as negative
\* keywords occur, at least one of each.
C12_Witness ==
    /\ classified # None
    /\ classified[1].result # None
    /\ Occurring(assignment_indicators, classified[1].text) > 0
    /\ Occurring(assignment_indicators, classified[1].text)
         = Occurring(non_assignment_indicators, classified[1].text)
    /\ ~classified[1].result[1].is_assignment

\* ------------------------------------------------------- extraction claims
\* C13: the duplicate test is symmetric under containment: of two titles
\* whose normalized forms (trimmed, lowercased, whitespace runs collapsed)
\* are one inside the other, whichever is seen first, the other is judged a
\* duplicate; and no title of an extraction's candidate list has a
\* normalized form equal to or containing that of another title of the list.
C13_DedupSymmetric ==
    /\ \A t1 \in ScrapeTitles, t2 \in ScrapeTitles :
          Contains(normalize_title(t2), normalize_title(t1)) =>
              is_duplicate_title(t1, {t2}) /\ is_duplicate_title(t2, {t1})
    /\ (scraped # None /\ ~scraped[1].raised) =>
          LET out == scraped[1].assignments
          IN  \A i \in 1..Len(out), j \in 1..Len(out) :
                 i # j => ~Contains(normalize_title(out[i].title),
                                    normalize_title(out[j].title))

\* C13 witness: an extraction of a page whose first card is titled
\* "Assignment 10" and whose second "Assignment 1": only the first is
\* returned.
C13_Witness ==
    /\ scraped # None
    /\ Len(page[1].nodes) >= 6
    /\ page[1].nodes[2].own = Assignment10
    /\ page[1].nodes[5].own = Assignment1
    /\ Len(scraped[1].assignments) = 1
    /\ scraped[1].assignments[1].title = Assignment10

\* The texts of a flat page, in document order.
TextsOf(flat) == [i \in 1..Len(flat.nodes) |-> flat.nodes[i].own]

\* A text that sets the title buffer: shorter than 100 characters, with
\* "Assignment" and without "Due:"/"Opened:"/"Closed:".
SetsBuffer(text) ==
    /\ TextLen(text) < MaxFallbackLen
    /\ Contains(text, <<"Assignment">>)
    /\ ~\E word \in DateLabels : Contains(text, word)

\* The pairing as claimed: a text starting with "Due:" met with a buffered
\* title emits the pair, unless the title is a duplicate, and clears the buffer.
RECURSIVE PairedAsClaimed(_, _, _)
PairedAsClaimed(texts, buffer, out) ==
    IF texts = <<>> THEN out
    ELSE LET text == Head(texts)
         IN  IF StartsWith(text, <<"Due:">>)
             THEN IF buffer = None
                  THEN PairedAsClaimed(Tail(texts), None, out)
                  ELSE IF \E i \in 1..Len(out) :
                             \/ Contains(normalize_title(out[i].title),
                                         normalize_title(buffer[1]))
                             \/ Contains(normalize_title(buffer[1]),
                                         normalize_title(out[i].title))
                  THEN PairedAsClaimed(Tail(texts), None, out)
                  ELSE PairedAsClaimed(Tail(texts), None,
                                       Append(out, [title |-> buffer[1],
                                                    due_date |-> text]))
             ELSE IF SetsBuffer(text)
             THEN PairedAsClaimed(Tail(texts), Some(text), out)
             ELSE PairedAsClaimed(Tail(texts), buffer, out)

\* C14 (as claimed): the fallback on a flat sequence returns the pairs of
\* the single-slot pairing: every text starting with "Due:" met while a
\* title is buffered emits (title, that text), unless the title is a
\* duplicate, and clears the buffer; one met with an empty buffer emits
\* nothing.
C14_FallbackPairs ==
    scraped # None =>
        scraped[1].assignments = PairedAsClaimed(TextsOf(page[1]), None, <<>>)

\* A line that may be a title: with "Assignment", without "Due:"/"Opened:"/
\* "Closed:", not starting with a navigation word, longer than 5 characters.
Qualifies(line) ==
    /\ Contains(line, <<"Assignment">>)
    /\ ~\E word \in DateLabels : Contains(line, word)
    /\ ~\E word \in NavPrefixes : StartsWith(line, word)
    /\ TextLen(line) > MinTitleLen

\* The first qualifying line, if any.
FirstQualifying(lines) ==
    LET at == {i \in 1..Len(lines) : Qualifies(Strip(lines[i]))}
    IN  IF at = {} THEN None
        ELSE Some(Strip(lines[CHOOSE i \in at : \A j \in at : i <= j]))

\* The title as claimed: the first qualifying line of the first level of the
\* walk whose text holds "Due:" and a qualifying line.
RECURSIVE TitleAsClaimed(_, _, _)
TitleAsClaimed(loaded, current, level) ==
    IF level >= WalkLevels \/ ElementText(loaded, current).raised
    THEN None
    ELSE LET text == Strip(ElementText(loaded, current).text)
             first == IF text # <<>> /\ Contains(text, <<"Due:">>)
                      THEN FirstQualifying(SplitLines(text))
                      ELSE None
         IN  IF first # None \/ current = 0
             THEN first
             ELSE TitleAsClaimed(loaded, loaded.nodes[current].parent, level + 1)

\* C15 (as claimed): every title the ancestor-walk strategy returns is, for
\* one of the page's assignment elements, the first qualifying line of the
\* level at which that element's walk takes its title.
C15_FirstLineIsTitle ==
    (/\ scraped # None
     /\ ~scraped[1].raised
     /\ Method1Loop(page[1], AssignmentElements(page[1]), {}, <<>>).found # {}) =>
        LET out == scraped[1].assignments
            elements == AssignmentElements(page[1])
        IN  \A i \in 1..Len(out) :
               \E k \in 1..Len(elements) :
                  TitleAsClaimed(page[1], elements[k], 0) = Some(out[i].title)

\* C10 (as claimed): an extraction in which one element's text read fails
\* does not abort, whichever strategy produced the candidates.
C10_ElementFailureSkipped ==
    (scraped # None /\ page[1].stale # 0) => ~scraped[1].raised

====
